---- MODULE Spec2Model ----
(***************************************************************************)
(* The account-to-depletion reconciliation join of sakeonoapp.             *)
(*                                                                         *)
(*   add_account_ids.py    merge_true_supabase_ids_with_depletions()       *)
(*   merge_account_ids.py  merge_account_ids_with_depletions()             *)
(*                                                                         *)
(* Both scripts read an accounts CSV and a depletions CSV, build a         *)
(* name -> id dictionary, walk the depletion rows once and write           *)
(* depletions_final_for_import.csv.  A CSV cell holding text is a sequence *)
(* of one-character strings; an empty cell (pandas NaN) is <<>>.           *)
(***************************************************************************)
EXTENDS Integers, Sequences, FiniteSets, TLC

\* ------------------------------------------------------------------ bounds
MaxAccounts == 2
MaxDepletions == 2

\* ------------------------------------------------------------- input cells
AccountNames == { <<" ", "J">>, <<"B">> }
AccountIds == { "A1", "A2" }
LookupNames == { <<"j", " ">>, <<"B">> }
CasesCells == { <<"3">>, <<"0">>, <<"-", "2">>, <<"x">>, <<>> }
OrderDates == { <<"2024", "04", "01">> }
Skus == { "DEFAULT_SKU" }
UuidPool == { "u1", "u2" }

NoCell == <<>>
NoText == ""

AccountColumns == { "id", "std_account_name" }
DepletionColumns == { "std_account_name_for_lookup", "order_date", "cases", "sku" }

AccountsOutputFile == "accounts_with_ids.csv"
OutputFile == "depletions_final_for_import.csv"

SeqsUpTo(S, n) == UNION { [1..k -> S] : k \in 0..n }

\* Rows of an accounts CSV that has the columns `cols`.
AccountRows(cols) ==
    [ id : IF "id" \in cols THEN AccountIds ELSE { NoText },
      std_account_name : IF "std_account_name" \in cols THEN AccountNames ELSE { NoCell } ]

\* Rows of a depletions CSV that has the columns `cols`.
DepletionRows(cols) ==
    [ std_account_name_for_lookup :
          IF "std_account_name_for_lookup" \in cols THEN LookupNames ELSE { <<"?">> },
      order_date : IF "order_date" \in cols THEN OrderDates ELSE { NoCell },
      cases : IF "cases" \in cols THEN CasesCells ELSE { <<"?">> },
      sku : IF "sku" \in cols THEN Skus ELSE { NoText } ]

NoFile == [ exists |-> FALSE, cols |-> {}, rows |-> <<>> ]

AccountsFiles ==
    { NoFile } \cup
    UNION { { [ exists |-> TRUE, cols |-> c, rows |-> r ] :
                r \in SeqsUpTo(AccountRows(c), MaxAccounts) } :
            c \in SUBSET AccountColumns }

DepletionColumnSets ==
    { DepletionColumns,
      DepletionColumns \ { "std_account_name_for_lookup" },
      DepletionColumns \ { "cases" } }

DepletionsFiles ==
    { NoFile } \cup
    UNION { { [ exists |-> TRUE, cols |-> c, rows |-> r ] :
                r \in SeqsUpTo(DepletionRows(c), MaxDepletions) } :
            c \in DepletionColumnSets }

\* ---------------------------------------------------------- pure functions

\* str.lower() on one character.
LowerChar(c) ==
    CASE c = "J" -> "j"
      [] c = "B" -> "b"
      [] OTHER -> c

\* Series.str.lower()
Lower(s) == [ k \in 1..Len(s) |-> LowerChar(s[k]) ]

RECURSIVE LStrip(_)
LStrip(s) == IF s # <<>> /\ Head(s) = " " THEN LStrip(Tail(s)) ELSE s

RECURSIVE RStrip(_)
RStrip(s) ==
    IF s # <<>> /\ s[Len(s)] = " " THEN RStrip(SubSeq(s, 1, Len(s) - 1)) ELSE s

\* Series.str.strip()
Strip(s) == RStrip(LStrip(s))

\* astype(str): a NaN cell becomes the text "nan".
AsStr(cell) == IF cell = <<>> THEN <<"n", "a", "n">> ELSE cell

NormalizeNoStrip(cell) == Lower(AsStr(cell))

\* .astype(str).str.lower().str.strip()
Normalize(cell) == Strip(Lower(AsStr(cell)))

Max(S) == CHOOSE x \in S : \A y \in S : y <= x
Min(S) == CHOOSE x \in S : \A y \in S : x <= y

DictZipFirst(keys, vals) ==
    [ k \in { keys[j] : j \in 1..Len(keys) } |->
          vals[Min({ j \in 1..Len(keys) : keys[j] = k })] ]

\* dict(zip(keys, vals)): a later pair overwrites an earlier one with its key.
DictZip(keys, vals) ==
    [ k \in { keys[j] : j \in 1..Len(keys) } |->
          vals[Max({ j \in 1..Len(keys) : keys[j] = k })] ]

\* account_id_map.get(key) is not None
HasKey(map, key) == key \in DOMAIN map

DigitValue(c) ==
    CASE c = "0" -> 0
      [] c = "2" -> 2
      [] c = "3" -> 3
      [] OTHER -> -1

IsDigits(s) == s # <<>> /\ \A k \in 1..Len(s) : DigitValue(s[k]) >= 0

RECURSIVE DigitsValue(_)
DigitsValue(s) ==
    IF s = <<>> THEN 0
    ELSE 10 * DigitsValue(SubSeq(s, 1, Len(s) - 1)) + DigitValue(s[Len(s)])

\* float(row['cases']): NaN for an empty cell, ValueError for text that is
\* no number, the number otherwise.
ParseFloat(cell) ==
    IF cell = <<>> THEN [ kind |-> "nan", val |-> 0 ]
    ELSE IF IsDigits(cell) THEN [ kind |-> "num", val |-> DigitsValue(cell) ]
    ELSE IF Head(cell) = "-" /\ IsDigits(Tail(cell))
         THEN [ kind |-> "num", val |-> 0 - DigitsValue(Tail(cell)) ]
    ELSE [ kind |-> "error", val |-> 0 ]

IsInvalidCasesZeroOk(p) == p.kind = "error" \/ p.kind = "nan" \/ p.val < 0

\* pd.isna(cases) or cases <= 0, or float() raised ValueError/TypeError
IsInvalidCases(p) == p.kind = "error" \/ p.kind = "nan" \/ p.val <= 0

\* An order_date cell "2024-04-01" is the sequence of its fields between the
\* dashes, <<"2024", "04", "01">>.
FieldValue(f) ==
    CASE f = "2024" -> 2024
      [] f = "04" -> 4
      [] f = "4" -> 4
      [] f = "05" -> 5
      [] f = "5" -> 5
      [] f = "01" -> 1
      [] f = "1" -> 1
      [] OTHER -> 0

\* pd.to_datetime on one cell
ToDatetime(d) == [ k \in 1..Len(d) |-> FieldValue(d[k]) ]

TwoDigits(n) ==
    CASE n = 1 -> "01"
      [] n = 4 -> "04"
      [] n = 5 -> "05"
      [] OTHER -> "00"

YearText(n) == IF n = 2024 THEN "2024" ELSE "0000"

\* .dt.strftime('%Y-%m-%d') on one timestamp
Strftime(t) == << YearText(t[1]), TwoDigits(t[2]), TwoDigits(t[3]) >>

\* final_df after step 7: account_id, cases and sku keep their values under
\* astype(str)/astype(float); order_date is parsed and re-formatted.
ConvertTypes(data) ==
    [ k \in 1..Len(data) |->
          [ data[k] EXCEPT !.order_date = Strftime(ToDatetime(data[k].order_date)) ] ]

\* ------------------------------------------------------------------- state
VARIABLES
    script,                        \* which script runs (the __main__ of each file)
    run,                           \* 1 for the first run, 2 for a repeated run
    pc,                            \* position in the script
    outcome,                       \* how the run ended
    accounts_file,                 \* the accounts CSV on disk (add :14, merge :12)
    depletions_file,               \* depletions_to_import.csv on disk (add :38, merge :23)
    files,                         \* files written so far, name -> rows (add :125, merge :19, :55)
    accounts_df,                   \* add :18, merge :12-17
    depletions_df,                 \* add :41, merge :23
    match_col_accounts,            \* add :55
    match_col_depletions,          \* add :56
    account_id_map,                \* add :62, merge :28
    rows_done,                     \* rows the loop has finished (add :71, merge :35)
    matched_depletions_data,       \* add :67, merge :31
    matched_rows,                  \* row number each matched record came from
    unmatched_account_names,       \* add :68
    skipped_due_to_invalid_cases,  \* add :69
    skipped_count,                 \* merge :32
    final_df,                      \* add :105, merge :52
    report,                        \* the summary printed after saving (add :126-136, merge :57-60)
    first_run_matched              \* matched list of the first run

vars == << script, run, pc, outcome, accounts_file, depletions_file, files,
           accounts_df, depletions_df, match_col_accounts, match_col_depletions,
           account_id_map, rows_done, matched_depletions_data, matched_rows,
           unmatched_account_names, skipped_due_to_invalid_cases, skipped_count,
           final_df, report, first_run_matched >>

inputs == << script, accounts_file, depletions_file >>

loopVars == << rows_done, matched_depletions_data, matched_rows,
               unmatched_account_names, skipped_due_to_invalid_cases, skipped_count >>

frames == << accounts_df, depletions_df, match_col_accounts, match_col_depletions,
             account_id_map >>

Scripts == { "add_account_ids", "merge_account_ids" }

EmptyMap == [ k \in {} |-> NoText ]
NoReport == [ printed |-> FALSE, matched |-> 0, unmatched |-> {}, skipped |-> 0 ]

\* The state at the first line of either script.
Fresh ==
    /\ pc = "read_accounts"
    /\ outcome = "running"
    /\ accounts_df = <<>>
    /\ depletions_df = <<>>
    /\ match_col_accounts = <<>>
    /\ match_col_depletions = <<>>
    /\ account_id_map = EmptyMap
    /\ rows_done = 0
    /\ matched_depletions_data = <<>>
    /\ matched_rows = <<>>
    /\ unmatched_account_names = {}
    /\ skipped_due_to_invalid_cases = 0
    /\ skipped_count = 0
    /\ final_df = <<>>
    /\ report = NoReport

Init ==
    /\ script \in Scripts
    /\ run = 1
    /\ accounts_file \in AccountsFiles
    /\ depletions_file \in DepletionsFiles
    /\ files = EmptyMap
    /\ first_run_matched = <<>>
    /\ Fresh

\* The run ends here: a return, or an exception nobody catches.
Stop(how) ==
    /\ pc' = "done"
    /\ outcome' = how

RequiredAccountColumnsIdOnly == { "id" }

\* The columns add_account_ids.py insists on in the accounts file.
RequiredAccountColumns == { "id", "std_account_name" }

RequiredDepletionColumns == { "std_account_name_for_lookup" }

\* ---------------------------------------------- add_account_ids.py, steps

\* Step 1 and the column checks after it.
ReadAccounts ==
    /\ script = "add_account_ids"
    /\ pc = "read_accounts"
    /\ IF ~accounts_file.exists
       THEN Stop("file_not_found") /\ UNCHANGED accounts_df
       ELSE IF ~(RequiredAccountColumns \subseteq accounts_file.cols)
       THEN Stop("missing_column") /\ UNCHANGED accounts_df
       ELSE /\ accounts_df' = accounts_file.rows
            /\ pc' = "read_depletions"
            /\ UNCHANGED outcome
    /\ UNCHANGED << inputs, run, files, depletions_df, match_col_accounts,
                    match_col_depletions, account_id_map, loopVars, final_df,
                    report, first_run_matched >>

\* Step 2 and the column check after it.
ReadDepletions ==
    /\ script = "add_account_ids"
    /\ pc = "read_depletions"
    /\ IF ~depletions_file.exists
       THEN Stop("file_not_found") /\ UNCHANGED depletions_df
       ELSE IF ~(RequiredDepletionColumns \subseteq depletions_file.cols)
       THEN Stop("missing_column") /\ UNCHANGED depletions_df
       ELSE /\ depletions_df' = depletions_file.rows
            /\ pc' = "build_map"
            /\ UNCHANGED outcome
    /\ UNCHANGED << inputs, run, files, accounts_df, match_col_accounts,
                    match_col_depletions, account_id_map, loopVars, final_df,
                    report, first_run_matched >>

\* Steps 3 and 4: the two match columns and the lookup dictionary.
BuildMap ==
    /\ script = "add_account_ids"
    /\ pc = "build_map"
    /\ IF "std_account_name" \notin accounts_file.cols
          \/ "std_account_name_for_lookup" \notin depletions_file.cols
          \/ "id" \notin accounts_file.cols
       THEN Stop("key_error")
            /\ UNCHANGED << match_col_accounts, match_col_depletions, account_id_map >>
       ELSE LET ma == [ k \in 1..Len(accounts_df) |->
                            Normalize(accounts_df[k].std_account_name) ]
                md == [ k \in 1..Len(depletions_df) |->
                            Normalize(depletions_df[k].std_account_name_for_lookup) ]
            IN /\ match_col_accounts' = ma
               /\ match_col_depletions' = md
               /\ account_id_map' =
                      DictZip(ma, [ k \in 1..Len(accounts_df) |-> accounts_df[k].id ])
               /\ pc' = "loop"
               /\ UNCHANGED outcome
    /\ UNCHANGED << inputs, run, files, accounts_df, depletions_df, loopVars,
                    final_df, report, first_run_matched >>

LoopDoneEarly(n, df) == n >= 1 \/ n = Len(df)

\* iterrows() is exhausted.
LoopDone(n, df) == n = Len(df)

UnmatchedAddNormalized(names, row) ==
    names \cup { Normalize(row.std_account_name_for_lookup) }

\* unmatched_account_names.add(row['std_account_name_for_lookup'])
UnmatchedAdd(names, row) == names \cup { row.std_account_name_for_lookup }

PrependMatched(data, rec) == << rec >> \o data

\* matched_depletions_data.append({...})
AppendMatched(data, rec) == Append(data, rec)

\* The dictionary appended for one accepted row.
MatchedRecord(id, row, cases) ==
    [ account_id |-> id, order_date |-> row.order_date, cases |-> cases, sku |-> row.sku ]

\* Step 5: one iteration of the loop over depletions_df.iterrows().
ProcessRow ==
    /\ script = "add_account_ids"
    /\ pc = "loop"
    /\ ~LoopDone(rows_done, depletions_df)
    /\ LET n == rows_done + 1
           row == depletions_df[n]
           normalized_lookup_name == match_col_depletions[n]
       IN IF ~HasKey(account_id_map, normalized_lookup_name)
          THEN /\ unmatched_account_names' = UnmatchedAdd(unmatched_account_names, row)
               /\ rows_done' = n
               /\ UNCHANGED << pc, outcome, matched_depletions_data, matched_rows,
                               skipped_due_to_invalid_cases >>
          ELSE IF "cases" \notin depletions_file.cols
          THEN /\ Stop("key_error")
               /\ UNCHANGED << rows_done, matched_depletions_data, matched_rows,
                               unmatched_account_names, skipped_due_to_invalid_cases >>
          ELSE LET cases == ParseFloat(row.cases)
               IN IF IsInvalidCases(cases)
                  THEN /\ skipped_due_to_invalid_cases' = skipped_due_to_invalid_cases + 1
                       /\ rows_done' = n
                       /\ UNCHANGED << pc, outcome, matched_depletions_data,
                                       matched_rows, unmatched_account_names >>
                  ELSE IF ~({ "order_date", "sku" } \subseteq depletions_file.cols)
                  THEN /\ Stop("key_error")
                       /\ UNCHANGED << rows_done, matched_depletions_data, matched_rows,
                                       unmatched_account_names,
                                       skipped_due_to_invalid_cases >>
                  ELSE /\ matched_depletions_data' =
                              AppendMatched(matched_depletions_data,
                                  MatchedRecord(account_id_map[normalized_lookup_name],
                                                row, cases.val))
                       /\ matched_rows' = Append(matched_rows, n)
                       /\ rows_done' = n
                       /\ UNCHANGED << pc, outcome, unmatched_account_names,
                                       skipped_due_to_invalid_cases >>
    /\ UNCHANGED << inputs, run, files, frames, skipped_count, final_df, report,
                    first_run_matched >>

\* Steps 6 and 7: nothing matched ends the run; otherwise build final_df and
\* fix its column types.
CreateFinal ==
    /\ script = "add_account_ids"
    /\ pc = "loop"
    /\ LoopDone(rows_done, depletions_df)
    /\ IF matched_depletions_data = <<>>
       THEN Stop("no_match") /\ UNCHANGED final_df
       ELSE /\ final_df' = ConvertTypes(matched_depletions_data)
            /\ pc' = "save"
            /\ UNCHANGED outcome
    /\ UNCHANGED << inputs, run, files, frames, loopVars, report, first_run_matched >>

\* The summary lines printed once the output is saved.
Summary(n, names, skipped) ==
    [ printed |-> TRUE, matched |-> n, unmatched |-> names, skipped |-> skipped ]

\* Step 8: to_csv either writes the file, and the summary is printed, or
\* raises, and only the error is printed; a to_csv that raises has created no
\* file or has left one holding the first rows only.
SaveOutput ==
    /\ script = "add_account_ids"
    /\ pc = "save"
    /\ \/ /\ files' = (OutputFile :> final_df) @@ files
          /\ report' = Summary(Len(final_df), unmatched_account_names,
                               skipped_due_to_invalid_cases)
          /\ Stop("saved")
       \/ /\ Stop("save_failed")
          /\ UNCHANGED << files, report >>
       \/ /\ \E k \in 0..(Len(final_df) - 1) :
                 files' = (OutputFile :> SubSeq(final_df, 1, k)) @@ files
          /\ Stop("save_failed")
          /\ UNCHANGED report
    /\ UNCHANGED << inputs, run, frames, loopVars, final_df, first_run_matched >>

\* -------------------------------------------- merge_account_ids.py, steps

\* Read accounts_to_import.csv; with no id column, give every account a
\* uuid4 and save accounts_with_ids.csv.
MergeReadAccounts ==
    /\ script = "merge_account_ids"
    /\ pc = "read_accounts"
    /\ IF ~accounts_file.exists
       THEN Stop("file_not_found") /\ UNCHANGED << accounts_df, files >>
       ELSE IF "id" \notin accounts_file.cols
       THEN \E uuids \in [ 1..Len(accounts_file.rows) -> UuidPool ] :
               /\ accounts_df' = [ k \in 1..Len(accounts_file.rows) |->
                                     [ accounts_file.rows[k] EXCEPT !.id = uuids[k] ] ]
               /\ files' = (AccountsOutputFile :> accounts_df') @@ files
               /\ pc' = "read_depletions"
               /\ UNCHANGED outcome
       ELSE /\ accounts_df' = accounts_file.rows
            /\ pc' = "read_depletions"
            /\ UNCHANGED << outcome, files >>
    /\ UNCHANGED << inputs, run, depletions_df, match_col_accounts,
                    match_col_depletions, account_id_map, loopVars, final_df,
                    report, first_run_matched >>

\* Read depletions_to_import.csv and build the lookup dictionary on the raw
\* account names.
MergeReadDepletions ==
    /\ script = "merge_account_ids"
    /\ pc = "read_depletions"
    /\ IF ~depletions_file.exists
       THEN Stop("file_not_found") /\ UNCHANGED << depletions_df, account_id_map >>
       ELSE IF "std_account_name" \notin accounts_file.cols
       THEN /\ Stop("key_error")
            /\ depletions_df' = depletions_file.rows
            /\ UNCHANGED account_id_map
       ELSE /\ depletions_df' = depletions_file.rows
            /\ account_id_map' =
                   DictZip([ k \in 1..Len(accounts_df) |-> accounts_df[k].std_account_name ],
                           [ k \in 1..Len(accounts_df) |-> accounts_df[k].id ])
            /\ pc' = "loop"
            /\ UNCHANGED outcome
    /\ UNCHANGED << inputs, run, files, accounts_df, match_col_accounts,
                    match_col_depletions, loopVars, final_df, report,
                    first_run_matched >>

\* One iteration of the loop over depletions_df.iterrows().
MergeProcessRow ==
    /\ script = "merge_account_ids"
    /\ pc = "loop"
    /\ ~LoopDone(rows_done, depletions_df)
    /\ LET n == rows_done + 1
           row == depletions_df[n]
           account_name == row.std_account_name_for_lookup
       IN IF "std_account_name_for_lookup" \notin depletions_file.cols
          THEN /\ Stop("key_error")
               /\ UNCHANGED << rows_done, matched_depletions_data, matched_rows,
                               skipped_count >>
          ELSE IF ~HasKey(account_id_map, account_name)
          THEN /\ skipped_count' = skipped_count + 1
               /\ rows_done' = n
               /\ UNCHANGED << pc, outcome, matched_depletions_data, matched_rows >>
          ELSE IF ~({ "order_date", "cases", "sku" } \subseteq depletions_file.cols)
          THEN /\ Stop("key_error")
               /\ UNCHANGED << rows_done, matched_depletions_data, matched_rows,
                               skipped_count >>
          ELSE /\ matched_depletions_data' =
                      AppendMatched(matched_depletions_data,
                          MatchedRecord(account_id_map[account_name], row, row.cases))
               /\ matched_rows' = Append(matched_rows, n)
               /\ rows_done' = n
               /\ UNCHANGED << pc, outcome, skipped_count >>
    /\ UNCHANGED << inputs, run, files, frames, unmatched_account_names,
                    skipped_due_to_invalid_cases, final_df, report, first_run_matched >>

\* Build final_df, save it and print the summary.
MergeSave ==
    /\ script = "merge_account_ids"
    /\ pc = "loop"
    /\ LoopDone(rows_done, depletions_df)
    /\ final_df' = matched_depletions_data
    /\ files' = (OutputFile :> final_df') @@ files
    /\ report' = Summary(Len(matched_depletions_data), {}, skipped_count)
    /\ Stop("saved")
    /\ UNCHANGED << inputs, run, frames, loopVars, first_run_matched >>

\* ------------------------------------------------------- a repeated run

\* The script is started again on the same two input files.
Rerun ==
    /\ pc = "done"
    /\ run = 1
    /\ run' = 2
    /\ first_run_matched' = matched_depletions_data
    /\ pc' = "read_accounts"
    /\ outcome' = "running"
    /\ accounts_df' = <<>>
    /\ depletions_df' = <<>>
    /\ match_col_accounts' = <<>>
    /\ match_col_depletions' = <<>>
    /\ account_id_map' = EmptyMap
    /\ rows_done' = 0
    /\ matched_depletions_data' = <<>>
    /\ matched_rows' = <<>>
    /\ unmatched_account_names' = {}
    /\ skipped_due_to_invalid_cases' = 0
    /\ skipped_count' = 0
    /\ final_df' = <<>>
    /\ report' = NoReport
    /\ UNCHANGED << inputs, files >>

\* --------------------------------------------------------- specifications

\* add_account_ids.py alone, run once.
InitAdd ==
    /\ script = "add_account_ids"
    /\ Init

NextAdd ==
    \/ ReadAccounts
    \/ ReadDepletions
    \/ BuildMap
    \/ ProcessRow
    \/ CreateFinal
    \/ SaveOutput

SpecAdd == InitAdd /\ [][NextAdd]_vars

\* Either script, run once.
Next ==
    \/ NextAdd
    \/ MergeReadAccounts
    \/ MergeReadDepletions
    \/ MergeProcessRow
    \/ MergeSave

Spec == Init /\ [][Next]_vars

\* Either script, run once and then once more on the same input files.
NextRerun == Next \/ Rerun

SpecRerun == Init /\ [][NextRerun]_vars

\* ------------------------------------------------- vocabulary of the claims

\* The entity and transaction inputs of the join.
Entities == accounts_file.rows
Transactions == depletions_file.rows

IsAdd == script = "add_account_ids"

FoldCase(c) == IF c = "J" THEN "j" ELSE IF c = "B" THEN "b" ELSE c

\* The normalization key of a name: trimmed and lower-cased.
NameKey(s) ==
    LET inked == { k \in 1..Len(s) : s[k] # " " }
    IN IF inked = {} THEN <<>>
       ELSE LET first == Min(inked)
                last == Max(inked)
            IN [ k \in 1..(last - first + 1) |-> FoldCase(s[first + k - 1]) ]

SameName(e, n) ==
    NameKey(Entities[e].std_account_name)
        = NameKey(Transactions[n].std_account_name_for_lookup)

HasEntity(n) == \E e \in 1..Len(Entities) : SameName(e, n)

\* The last entity, in input order, whose normalized name is that of transaction n.
LastEntity(n) == Max({ e \in 1..Len(Entities) : SameName(e, n) })

MissingQuantity == { <<>> }
NonNumericQuantity == { <<"x">> }
ZeroQuantity == { <<"0">> }
NegativeQuantity == { <<"-", "2">> }

InvalidQuantity(n) ==
    Transactions[n].cases \in
        MissingQuantity \cup NonNumericQuantity \cup ZeroQuantity \cup NegativeQuantity

QuantityValue(cell) == IF cell = <<"3">> THEN 3 ELSE 0

Accepted == { n \in 1..Len(Transactions) : HasEntity(n) /\ ~InvalidQuantity(n) }

\* The loop of add_account_ids.py has been entered.
LoopReached ==
    /\ IsAdd
    /\ \/ pc \in { "loop", "save" }
       \/ pc = "done" /\ outcome \in { "saved", "save_failed", "no_match" }

\* The loop of add_account_ids.py has classified every transaction.
PassFinished ==
    /\ IsAdd
    /\ \/ pc = "save"
       \/ pc = "done" /\ outcome \in { "saved", "save_failed", "no_match" }

Range(f) == { f[k] : k \in DOMAIN f }

\* Both inputs hold rows, and every column but possibly the id column is there.
FullInputs ==
    /\ Entities # <<>>
    /\ Transactions # <<>>
    /\ "std_account_name" \in accounts_file.cols
    /\ depletions_file.cols = DepletionColumns

\* ------------------------------------------------------------------ claims

\* C1 (as stated): for every entity e and every transaction t with equal
\* normalized names, a record that t produces in matched carries e's
\* identifier, also when several entities normalize to the same name.
C1_EveryEntityIdentifier ==
    IsAdd =>
        \A k \in 1..Len(matched_depletions_data) :
            \A e \in 1..Len(Entities) :
                SameName(e, matched_rows[k])
                    => matched_depletions_data[k].account_id = Entities[e].id

\* C1 (amended): every record in matched comes from a transaction that has an
\* entity of equal normalized name, and it carries the identifier of each such
\* entity that no later entity of the same normalized name follows.
C1_LastEntityIdentifier ==
    IsAdd =>
        \A k \in 1..Len(matched_depletions_data) :
            /\ HasEntity(matched_rows[k])
            /\ \A e \in 1..Len(Entities) :
                   ( /\ SameName(e, matched_rows[k])
                     /\ \A later \in (e + 1)..Len(Entities) :
                            ~SameName(later, matched_rows[k]) )
                       => matched_depletions_data[k].account_id = Entities[e].id

\* A record matched through normalization alone, beside an entity of another name.
C1_Witness ==
    /\ IsAdd
    /\ Len(matched_depletions_data) >= 1
    /\ Len(Entities) = 2
    /\ NameKey(Entities[1].std_account_name) # NameKey(Entities[2].std_account_name)
    /\ Entities[1].id # Entities[2].id
    /\ Transactions[matched_rows[1]].std_account_name_for_lookup
           # Entities[LastEntity(matched_rows[1])].std_account_name

\* C2: a transaction whose normalized name equals no entity's normalized name
\* is, once the loop has passed it, in no record of matched, and its original
\* name is in unmatched_names.
C2_UnmatchedDropped ==
    IsAdd =>
        \A n \in 1..rows_done :
            ~HasEntity(n) =>
                /\ n \notin Range(matched_rows)
                /\ Transactions[n].std_account_name_for_lookup \in unmatched_account_names

\* The pass is over, one transaction was matched and another, whose original
\* name differs from its normalized name, was not.
C2_Witness ==
    /\ PassFinished
    /\ matched_depletions_data # <<>>
    /\ \E n \in 1..Len(Transactions) :
           /\ ~HasEntity(n)
           /\ NameKey(Transactions[n].std_account_name_for_lookup)
                  # Transactions[n].std_account_name_for_lookup

\* C3 (as stated): every transaction with a missing, non-numeric, zero or
\* negative quantity is absent from matched and adds one to
\* skipped_invalid_count, whether or not its name matches an entity (stated
\* for inputs that hold rows and lack no column).
C3_EveryInvalidCounted ==
    (PassFinished /\ FullInputs) =>
        /\ \A n \in Range(matched_rows) : ~InvalidQuantity(n)
        /\ skipped_due_to_invalid_cases
               = Cardinality({ n \in 1..Len(Transactions) : InvalidQuantity(n) })

\* C3 (amended): every transaction with a missing, non-numeric, zero or
\* negative quantity is absent from matched; it adds one to
\* skipped_invalid_count when its name matches an entity, and nothing when it
\* matches none (it is then recorded as unmatched only).
C3_MatchedInvalidCounted ==
    IsAdd =>
        /\ \A n \in Range(matched_rows) : ~InvalidQuantity(n)
        /\ skipped_due_to_invalid_cases
               = Cardinality({ n \in 1..rows_done : HasEntity(n) /\ InvalidQuantity(n) })

\* The pass is over with a zero quantity under a matching name counted and an
\* invalid quantity under an unmatched name not counted.
C3_Witness ==
    /\ PassFinished
    /\ skipped_due_to_invalid_cases = 1
    /\ \E n \in 1..Len(Transactions) :
           HasEntity(n) /\ Transactions[n].cases \in ZeroQuantity
    /\ \E n \in 1..Len(Transactions) : ~HasEntity(n) /\ InvalidQuantity(n)

\* C4: every transaction the loop has passed is in exactly one of matched,
\* unmatched and invalid, so the matched records, the transactions dropped as
\* unmatched and skipped_invalid_count add up to the transactions passed, and
\* after the pass to the whole input.
C4_ExactlyOneOutcome ==
    IsAdd =>
        /\ Len(matched_depletions_data)
               + Cardinality({ n \in 1..rows_done : ~HasEntity(n) })
               + skipped_due_to_invalid_cases
             = rows_done
        /\ \A k, l \in 1..Len(matched_rows) : k < l => matched_rows[k] < matched_rows[l]
        /\ PassFinished => rows_done = Len(Transactions)

\* The pass is over two transactions, one of them matched and the other
\* skipped for its quantity.
C4_Witness ==
    /\ PassFinished
    /\ rows_done = 2
    /\ Len(matched_depletions_data) = 1
    /\ skipped_due_to_invalid_cases = 1

\* C5: when entities of one normalized name carry different identifiers, the
\* mapping holds the identifier of the last of them in input order, and every
\* transaction of that name is reconciled to it.
C5_LastWriteWins ==
    LoopReached =>
        \A e1, e2 \in 1..Len(Entities) :
            ( /\ e1 < e2
              /\ NameKey(Entities[e1].std_account_name)
                     = NameKey(Entities[e2].std_account_name)
              /\ Entities[e1].id # Entities[e2].id
              /\ \A later \in (e2 + 1)..Len(Entities) :
                     NameKey(Entities[later].std_account_name)
                         # NameKey(Entities[e2].std_account_name) )
            => /\ NameKey(Entities[e2].std_account_name) \in DOMAIN account_id_map
               /\ account_id_map[NameKey(Entities[e2].std_account_name)] = Entities[e2].id
               /\ \A k \in 1..Len(matched_depletions_data) :
                      SameName(e2, matched_rows[k])
                          => matched_depletions_data[k].account_id = Entities[e2].id

\* Two entities of one normalized name and different identifiers, and a
\* transaction of that name reconciled.
C5_Witness ==
    /\ PassFinished
    /\ Len(Entities) = 2
    /\ NameKey(Entities[1].std_account_name) = NameKey(Entities[2].std_account_name)
    /\ Entities[1].id # Entities[2].id
    /\ \E k \in 1..Len(matched_depletions_data) : SameName(2, matched_rows[k])

\* C6 (as stated): a second run on the same two input files ends with the
\* same matched sequence as the first, also when the accounts file has no id
\* column and the script generates the identifiers.
C6_RerunSameMatched ==
    (run = 2 /\ pc = "done") => matched_depletions_data = first_run_matched

\* C7 (as stated): no file is written before every transaction has been
\* classified (stated for runs whose two inputs hold at least one row each
\* and lack no column but, possibly, the id column).
C7_NoFileBeforeClassified ==
    (DOMAIN files # {} /\ FullInputs) =>
        /\ pc \in { "save", "done" }
        /\ depletions_file.exists
        /\ rows_done = Len(Transactions)

\* C7 (amended): depletions_final_for_import.csv is written only after every
\* transaction has been classified, so a run that ends during the pass leaves
\* no such file; accounts_with_ids.csv, which merge_account_ids.py writes when
\* it generates the identifiers, is written before the pass.
C7_OutputAfterClassified ==
    /\ OutputFile \in DOMAIN files =>
           /\ pc = "done"
           /\ outcome \in { "saved", "save_failed" }
           /\ depletions_file.exists
           /\ rows_done = Len(Transactions)
    /\ (pc = "done" /\ outcome \notin { "saved", "save_failed" })
           => OutputFile \notin DOMAIN files
    /\ DOMAIN files \subseteq
           IF IsAdd THEN { OutputFile } ELSE { OutputFile, AccountsOutputFile }
    /\ AccountsOutputFile \in DOMAIN files => "id" \notin accounts_file.cols

\* The output file is on disk, complete, after a pass over two transactions.
C7_Witness ==
    /\ OutputFile \in DOMAIN files
    /\ outcome = "saved"
    /\ rows_done = 2
    /\ Len(files[OutputFile]) >= 1

\* C8 (as stated): a run of add_account_ids.py that passes the column checks
\* and ends its pass with a non-empty unmatched_names or a non-zero
\* skipped_invalid_count reports both and persists matched, also when matched
\* is empty.
C8_ReportedAndPersisted ==
    ( /\ IsAdd
      /\ pc = "done"
      /\ outcome \in { "saved", "no_match" }
      /\ FullInputs
      /\ unmatched_account_names # {} \/ skipped_due_to_invalid_cases > 0 ) =>
        /\ report.printed
        /\ report.unmatched = unmatched_account_names
        /\ report.skipped = skipped_due_to_invalid_cases
        /\ OutputFile \in DOMAIN files

\* C9: when the accounts file lacks the id or the std_account_name column, or
\* the depletions file lacks the std_account_name_for_lookup column,
\* add_account_ids.py ends at the column check: no transaction is classified,
\* no record matched, no accumulator changed and no file written.
C9_MissingColumnAborts ==
    ( /\ IsAdd
      /\ accounts_file.exists
      /\ \/ "id" \notin accounts_file.cols
         \/ "std_account_name" \notin accounts_file.cols
         \/ /\ depletions_file.exists
            /\ "std_account_name_for_lookup" \notin depletions_file.cols )
    => /\ pc \in { "read_accounts", "read_depletions", "done" }
       /\ pc = "done" => outcome = "missing_column"
       /\ rows_done = 0
       /\ matched_depletions_data = <<>>
       /\ unmatched_account_names = {}
       /\ skipped_due_to_invalid_cases = 0
       /\ account_id_map = EmptyMap
       /\ DOMAIN files = {}

\* The run has ended at the column check of the depletions file, which holds
\* transactions.
C9_Witness ==
    /\ IsAdd
    /\ pc = "done"
    /\ outcome = "missing_column"
    /\ accounts_df # <<>>
    /\ "std_account_name_for_lookup" \notin depletions_file.cols
    /\ Len(Transactions) >= 1

\* C10: after the pass, matched is the accepted transactions in input order:
\* its k-th record comes from the k-th accepted transaction and carries that
\* transaction's order_date and sku unchanged, the parsed quantity, and the
\* identifier in place of the name; the type fixes of step 7 leave these
\* records as they are.
C10_OrderPreservingFrame ==
    PassFinished =>
        LET accepted == Accepted
            Kth(k) == CHOOSE n \in accepted : Cardinality({ m \in accepted : m <= n }) = k
        IN /\ Len(matched_depletions_data) = Cardinality(accepted)
           /\ \A k \in 1..Len(matched_depletions_data) :
                  LET n == Kth(k)
                  IN /\ matched_rows[k] = n
                     /\ matched_depletions_data[k].order_date = Transactions[n].order_date
                     /\ matched_depletions_data[k].sku = Transactions[n].sku
                     /\ matched_depletions_data[k].cases
                            = QuantityValue(Transactions[n].cases)
                     /\ matched_depletions_data[k].account_id = Entities[LastEntity(n)].id
                     /\ DOMAIN matched_depletions_data[k]
                            = { "account_id", "order_date", "cases", "sku" }
           /\ matched_depletions_data # <<>> => final_df = matched_depletions_data

\* Two accepted transactions reconciled to different identifiers.
C10_Witness ==
    /\ PassFinished
    /\ Len(matched_depletions_data) = 2
    /\ matched_depletions_data[1].account_id # matched_depletions_data[2].account_id

====
